---------------------------- MODULE Spec2Model ----------------------------
(***************************************************************************)
(* A model of suntime's Braille line-chart renderer (src/src/plot.rs):     *)
(* the glyph codec (pattern_from_char / char_for_pattern), the merging     *)
(* cell write (plot_at), the column mask (pattern_for), the interpolation  *)
(* (y_at), the line rasterizer (plot_line) and the chart renderer          *)
(* (plot_times).                                                           *)
(*                                                                         *)
(* Characters are modelled by their Unicode code points, strings by        *)
(* sequences of code points, times of day by milliseconds since midnight.  *)
(* A Rust panic is modelled by pc = "panic" with its reason in err.        *)
(***************************************************************************)
EXTENDS Integers, Sequences, FiniteSets, TLC

VARIABLES
    pc,       \* control position of the running operation
    err,      \* reason of the panic, "none" while there is none
    label,    \* plot_times: label (sequence of code points)
    width,    \* plot_times: width
    height,   \* plot_times: height
    times,    \* plot_times: times, as milliseconds since midnight
    buf,      \* the character grid: buf[r][c], r in 1..height+1 is Rust row r-1
    seg,      \* plot_times: index i of the windows(2) loop
    from,     \* plot_line: from, <<x, y>>
    to,       \* plot_line: to, <<x, y>>
    pt,       \* plot_line: pt, <<x, y>>
    calls,    \* plot_line: the buffer writes issued, <<row, col, pattern>> each
    out,      \* plot_times: the lines printed so far
    cell,     \* plot_at: the character merged into
    merged,   \* plot_at: the patterns merged into cell, in order
    arg,      \* inputs of the pure function under evaluation
    res       \* its result

vars == <<pc, err, label, width, height, times, buf, seg, from, to, pt,
          calls, out, cell, merged, arg, res>>

-----------------------------------------------------------------------------
(* Bounds of the model *)

MaxWidth == 3
MaxHeight == 4
MaxSamples == 3
LineMaxWidth == 2
LineMaxHeight == 3
MaxMerges == 3
MaxRowPos == 11
MaxX == 4

-----------------------------------------------------------------------------
(* Program constants *)

SpaceChar == 32
BrailleBase == 10240
LabelField == 10
RowsPerCell == 4

-----------------------------------------------------------------------------
(* Machine arithmetic *)

\* Rust's integer division truncates toward zero
TruncDiv(a, b) ==
    IF (a >= 0) = (b > 0) THEN (IF a >= 0 THEN a ELSE -a) \div (IF b > 0 THEN b ELSE -b)
    ELSE -((IF a >= 0 THEN a ELSE -a) \div (IF b > 0 THEN b ELSE -b))

\* Rust's % takes the sign of the dividend
TruncRem(a, b) == a - b * TruncDiv(a, b)

RECURSIVE BitAnd(_, _)
BitAnd(a, b) ==
    IF a = 0 \/ b = 0 THEN 0
    ELSE (a % 2) * (b % 2) + 2 * BitAnd(a \div 2, b \div 2)

RECURSIVE BitOr(_, _)
BitOr(a, b) ==
    IF a = 0 THEN b
    ELSE IF b = 0 THEN a
    ELSE (IF a % 2 = 1 \/ b % 2 = 1 THEN 1 ELSE 0) + 2 * BitOr(a \div 2, b \div 2)

\* a << n on an unsigned integer of w bits: bits shifted out are lost
Shl(a, n, w) == (a * (2 ^ n)) % (2 ^ w)

Shr(a, n) == a \div (2 ^ n)

-----------------------------------------------------------------------------
(* Glyph codec *)

pattern_from_char(ch) ==
    IF ch = SpaceChar THEN 0
    ELSE LET d == ch - BrailleBase
             \* a u32 shifted by one: at most 112, no bit is lost
             rv0 == BitOr(BitAnd(d, 56) * 2, BitAnd(d, 7))
             rv1 == IF BitAnd(d, 64) > 0 THEN BitOr(rv0, 8) ELSE rv0
             rv2 == IF BitAnd(d, 128) > 0 THEN BitOr(rv1, 128) ELSE rv1
         IN  rv2 % 256

Mut_char_for_pattern(pattern) ==
    IF pattern = 0 THEN SpaceChar
    ELSE LET rv0 == BitOr(Shr(BitAnd(pattern, 112), 1), BitAnd(pattern, 7))
             rv1 == rv0 + BrailleBase
             rv2 == IF BitAnd(pattern, 8) > 0 THEN rv1 + 128 ELSE rv1
             rv3 == IF BitAnd(pattern, 128) > 0 THEN rv2 + 64 ELSE rv2
         IN  rv3

char_for_pattern(pattern) ==
    IF pattern = 0 THEN SpaceChar
    ELSE LET rv0 == BitOr(Shr(BitAnd(pattern, 112), 1), BitAnd(pattern, 7))
             rv1 == rv0 + BrailleBase
             rv2 == IF BitAnd(pattern, 8) > 0 THEN rv1 + 64 ELSE rv1
             rv3 == IF BitAnd(pattern, 128) > 0 THEN rv2 + 128 ELSE rv2
         IN  rv3

Mut_plot_at(pattern, ch) == char_for_pattern(pattern)

\* plot_at(pattern, buf): the character left in *buf
plot_at(pattern, ch) == char_for_pattern(BitOr(pattern, pattern_from_char(ch)))

-----------------------------------------------------------------------------
(* Column mask and interpolation *)

Mut_pattern_for(pfrom, pto) ==
    LET p0 == Shl(1, 3 - TruncRem(pfrom, 4), 8)
        p1 == IF TruncDiv(pto, 4) = TruncDiv(pfrom, 4)
                  THEN BitOr(p0, Shl(1, 3 - TruncRem(pto, 4), 8))
              ELSE IF pto < pfrom THEN BitOr(p0, 8)
              ELSE BitOr(p0, 1)
        p2 == IF p1 = 5 THEN 7 ELSE p1
        p3 == IF p2 = 10 THEN 14 ELSE p2
    IN  p3

pattern_for(pfrom, pto) ==
    LET p0 == Shl(1, 3 - TruncRem(pfrom, 4), 8)
        p1 == IF TruncDiv(pto, 4) = TruncDiv(pfrom, 4)
                  THEN BitOr(p0, Shl(1, 3 - TruncRem(pto, 4), 8))
              ELSE IF pto < pfrom THEN BitOr(p0, 8)
              ELSE BitOr(p0, 1)
        p2 == IF p1 = 5 THEN 7 ELSE p1
        p3 == IF p2 = 10 THEN 14 ELSE p2
        p4 == IF p3 = 9 THEN 15 ELSE p3
    IN  p4

Mut_y_at(pfrom, pto, x) ==
    LET dx == pto[1] - pfrom[1]
        dy == pto[2] - pfrom[2]
    IN  pfrom[2] + ((dy * (x - pfrom[1])) \div dx)

y_at(pfrom, pto, x) ==
    LET dx == pto[1] - pfrom[1]
        dy == pto[2] - pfrom[2]
    IN  pfrom[2] + TruncDiv(dy * (x - pfrom[1]), dx)

-----------------------------------------------------------------------------
(* Strings and formatting *)

TwoDigits(n) == <<48 + (n \div 10), 48 + (n % 10)>>

\* NaiveTime::format("%H:%M:%S") of a time given in milliseconds since midnight
FormatHMS(ms) ==
    LET secs == ms \div 1000
    IN  TwoDigits(secs \div 3600) \o <<58>> \o TwoDigits((secs \div 60) % 60)
            \o <<58>> \o TwoDigits(secs % 60)

\* "{:>10}": right-justified in a field of at least LabelField characters
Mut_RightJustify(s) ==
    IF Len(s) >= LabelField THEN SubSeq(s, 1, LabelField)
    ELSE [k \in 1..(LabelField - Len(s)) |-> SpaceChar] \o s

RightJustify(s) ==
    IF Len(s) >= LabelField THEN s
    ELSE [k \in 1..(LabelField - Len(s)) |-> SpaceChar] \o s

-----------------------------------------------------------------------------
(* plot_times: the values computed on entry *)

SeqMin(s) == CHOOSE m \in {s[k] : k \in 1..Len(s)} : \A k \in 1..Len(s) : m <= s[k]

SeqMax(s) == CHOOSE m \in {s[k] : k \in 1..Len(s)} : \A k \in 1..Len(s) : m >= s[k]

\* pt_height.num_milliseconds(), where pt_height = ((max - min) / height) / 4
PtHeightMs == ((SeqMax(times) - SeqMin(times)) \div height) \div RowsPerCell

\* (i as f32 * horiz_size) as i64 * 2, with horiz_size = width as f32 / times.len() as f32.
\* The f32 product and the exact quotient i * width / len have the same integer part
\* for every width below 200 and every len below 82, which covers the bounds here.
XOf(i) == ((i * width) \div Len(times)) * 2

YOf(t) == TruncDiv(t - SeqMin(times), PtHeightMs)

EmptyBuf(w, h) == [r \in 1..(h + 1) |-> [c \in 1..w |-> SpaceChar]]

Mut_RowTag(i) ==
    IF i = height \div 2 THEN label
    ELSE IF i = 1 THEN FormatHMS(SeqMax(times))
    ELSE IF i = height THEN FormatHMS(SeqMin(times))
    ELSE << >>

\* row_tag of buffer row i (0-based, as in the source)
RowTag(i) ==
    IF i = 1 THEN FormatHMS(SeqMax(times))
    ELSE IF i = height THEN FormatHMS(SeqMin(times))
    ELSE IF i = height \div 2 THEN label
    ELSE << >>

\* the line println! writes for buffer row i (0-based)
FormatRow(i) == RightJustify(RowTag(i)) \o <<SpaceChar>> \o buf[i + 1]

-----------------------------------------------------------------------------
(* plot_line: one iteration of either loop *)

\* the condition of the vertical branch's while loop
VerticalCond ==
    \/ from[2] < to[2] /\ pt[2] <= to[2]
    \/ from[2] > to[2] /\ pt[2] >= to[2]

Mut_VerticalNext(y) ==
    IF to[2] > from[2] THEN y - TruncRem(y, 4)
    ELSE (y + (3 - TruncRem(y, 4))) - 4

\* pt.1 after one iteration of the vertical loop
VerticalNext(y) ==
    IF to[2] > from[2] THEN (y - TruncRem(y, 4)) + 4
    ELSE (y + (3 - TruncRem(y, 4))) - 4

Mut_Shifted(pattern) == IF TruncRem(pt[1], 2) = 0 THEN Shl(pattern, 4, 8) ELSE pattern

\* the pattern of an iteration, shifted to the right sub-column when pt.0 is odd
Shifted(pattern) == IF TruncRem(pt[1], 2) = 1 THEN Shl(pattern, 4, 8) ELSE pattern

Mut_RowIndex == pt[2] \div 4

\* buf.len() - 1 - pt.1 as usize / 4 and pt.0 as usize / 2; a negative
\* coordinate cast to usize is far beyond any buffer
RowIndex == Len(buf) - 1 - (pt[2] \div 4)

ColIndex == pt[1] \div 2

IndexInBounds ==
    /\ pt[1] >= 0 /\ pt[2] >= 0
    /\ RowIndex >= 0 /\ RowIndex < Len(buf)
    /\ ColIndex < Len(buf[RowIndex + 1])

\* plot_at(pattern, &mut buf[row][col]), or the panic of the indexing
Write(pattern, nextpt) ==
    IF IndexInBounds
    THEN /\ buf' = [buf EXCEPT ![RowIndex + 1][ColIndex + 1] = plot_at(Shifted(pattern), @)]
         /\ calls' = Append(calls, <<RowIndex, ColIndex, Shifted(pattern)>>)
         /\ pt' = nextpt
         /\ UNCHANGED <<pc, err>>
    ELSE /\ pc' = "panic"
         /\ err' = "index_out_of_bounds"
         /\ UNCHANGED <<buf, calls, pt>>

VerticalStep ==
    /\ pc = "plot_line"
    /\ from[1] = to[1]
    /\ VerticalCond
    /\ Write(pattern_for(pt[2], to[2]), <<pt[1], VerticalNext(pt[2])>>)
    /\ UNCHANGED <<label, width, height, times, seg, from, to, out, cell, merged, arg, res>>

NonVerticalStep ==
    /\ pc = "plot_line"
    /\ from[1] # to[1]
    /\ pt[1] < to[1]
    /\ Write(pattern_for(pt[2], y_at(from, to, pt[1] + 1)),
             <<pt[1] + 1, y_at(from, to, pt[1] + 1)>>)
    /\ UNCHANGED <<label, width, height, times, seg, from, to, out, cell, merged, arg, res>>

\* neither loop has an iteration left
LineFinished ==
    /\ pc = "plot_line"
    /\ IF from[1] = to[1] THEN ~VerticalCond ELSE ~(pt[1] < to[1])

-----------------------------------------------------------------------------
(* plot_times *)

PlotTimesEnter ==
    /\ pc = "plot_times"
    /\ IF times = << >>
       THEN pc' = "panic" /\ err' = "unwrap_none" /\ UNCHANGED buf
       ELSE IF height = 0
       THEN pc' = "panic" /\ err' = "divide_by_zero" /\ UNCHANGED buf
       ELSE pc' = "windows" /\ buf' = EmptyBuf(width, height) /\ UNCHANGED err
    /\ UNCHANGED <<label, width, height, times, seg, from, to, pt, calls, out,
                   cell, merged, arg, res>>

\* the body of the windows(2) loop up to the call of plot_line
SegmentBegin ==
    /\ pc = "windows"
    /\ seg + 2 <= Len(times)
    /\ IF PtHeightMs = 0
       THEN pc' = "panic" /\ err' = "divide_by_zero" /\ UNCHANGED <<from, to, pt>>
       ELSE /\ from' = <<XOf(seg), YOf(times[seg + 1])>>
            /\ to' = <<XOf(seg + 1), YOf(times[seg + 2])>>
            /\ pt' = from'
            /\ pc' = "plot_line"
            /\ UNCHANGED err
    /\ UNCHANGED <<label, width, height, times, buf, seg, calls, out, cell, merged, arg, res>>

SegmentEnd ==
    /\ LineFinished
    /\ pc' = "windows"
    /\ seg' = seg + 1
    /\ UNCHANGED <<err, label, width, height, times, buf, from, to, pt, calls, out,
                   cell, merged, arg, res>>

WindowsDone ==
    /\ pc = "windows"
    /\ seg + 2 > Len(times)
    /\ pc' = "print"
    /\ UNCHANGED <<err, label, width, height, times, buf, seg, from, to, pt, calls, out,
                   cell, merged, arg, res>>

PrintRow ==
    /\ pc = "print"
    /\ Len(out) < Len(buf)
    /\ out' = Append(out, FormatRow(Len(out)))
    /\ UNCHANGED <<pc, err, label, width, height, times, buf, seg, from, to, pt, calls,
                   cell, merged, arg, res>>

PrintDone ==
    /\ pc = "print"
    /\ Len(out) = Len(buf)
    /\ pc' = "done"
    /\ UNCHANGED <<err, label, width, height, times, buf, seg, from, to, pt, calls, out,
                   cell, merged, arg, res>>

-----------------------------------------------------------------------------
(* The inputs of a rendering *)

\* times of day in milliseconds since midnight: 17:50:00, 17:50:00.007,
\* 17:50:00.015, 18:00:00 and 18:10:00
TimePool == {64200000, 64200007, 64200015, 64800000, 65400000}

\* "Sunsets" and "SunsetTimes"
Labels == { <<83, 117, 110, 115, 101, 116, 115>>,
            <<83, 117, 110, 115, 101, 116, 84, 105, 109, 101, 115>> }

SeqsUpTo(S, n) == UNION {[1..k -> S] : k \in 0..n}

Init ==
    /\ pc = "plot_times"
    /\ err = "none"
    /\ label \in Labels
    /\ width \in 0..MaxWidth
    /\ height \in 0..MaxHeight
    /\ times \in SeqsUpTo(TimePool, MaxSamples)
    /\ buf = << >>
    /\ seg = 0
    /\ from = <<0, 0>>
    /\ to = <<0, 0>>
    /\ pt = <<0, 0>>
    /\ calls = << >>
    /\ out = << >>
    /\ cell = SpaceChar
    /\ merged = << >>
    /\ arg = << >>
    /\ res = 0

Next ==
    \/ PlotTimesEnter
    \/ SegmentBegin
    \/ VerticalStep
    \/ NonVerticalStep
    \/ SegmentEnd
    \/ WindowsDone
    \/ PrintRow
    \/ PrintDone

Spec == Init /\ [][Next]_vars

-----------------------------------------------------------------------------
(* plot_line called on its own, on an empty buffer *)

LineReturn ==
    /\ LineFinished
    /\ pc' = "returned"
    /\ UNCHANGED <<err, label, width, height, times, buf, seg, from, to, pt, calls, out,
                   cell, merged, arg, res>>

\* the sub-pixels of a chart of width w and height h
SubPixels(w, h) == (0..(2 * w - 1)) \X (0..(RowsPerCell * (h + 1) - 1))

InitLine ==
    /\ pc = "plot_line"
    /\ err = "none"
    /\ label = << >>
    /\ width \in 1..LineMaxWidth
    /\ height \in 1..LineMaxHeight
    /\ times = << >>
    /\ buf = EmptyBuf(width, height)
    /\ seg = 0
    /\ from \in SubPixels(width, height)
    /\ to \in SubPixels(width, height)
    /\ pt = from
    /\ calls = << >>
    /\ out = << >>
    /\ cell = SpaceChar
    /\ merged = << >>
    /\ arg = << >>
    /\ res = 0

NextLine ==
    \/ VerticalStep
    \/ NonVerticalStep
    \/ LineReturn

SpecLine == InitLine /\ [][NextLine]_vars

-----------------------------------------------------------------------------
(* Every rendering: plot_times, and plot_line called on its own *)

\* plot_line returns to plot_times, which called it with at least 2 samples
RenderReturn == times # << >> /\ SegmentEnd

\* plot_line returns to a caller other than plot_times
CallReturn == times = << >> /\ LineReturn

InitAll == Init \/ InitLine

NextAll ==
    \/ PlotTimesEnter
    \/ SegmentBegin
    \/ VerticalStep
    \/ NonVerticalStep
    \/ RenderReturn
    \/ CallReturn
    \/ WindowsDone
    \/ PrintRow
    \/ PrintDone

SpecAll == InitAll /\ [][NextAll]_vars

-----------------------------------------------------------------------------
(* The codec on its own: encode a pattern, decode the character *)

Encode ==
    /\ pc = "encode"
    /\ res' = char_for_pattern(arg[1])
    /\ pc' = "decode"
    /\ UNCHANGED <<err, label, width, height, times, buf, seg, from, to, pt, calls, out,
                   cell, merged, arg>>

Decode ==
    /\ pc = "decode"
    /\ res' = pattern_from_char(res)
    /\ pc' = "decoded"
    /\ UNCHANGED <<err, label, width, height, times, buf, seg, from, to, pt, calls, out,
                   cell, merged, arg>>

InitCodec ==
    /\ pc = "encode"
    /\ err = "none"
    /\ label = << >>
    /\ width = 0
    /\ height = 0
    /\ times = << >>
    /\ buf = << >>
    /\ seg = 0
    /\ from = <<0, 0>>
    /\ to = <<0, 0>>
    /\ pt = <<0, 0>>
    /\ calls = << >>
    /\ out = << >>
    /\ cell = SpaceChar
    /\ merged = << >>
    /\ arg \in {<<p>> : p \in 0..255}
    /\ res = 0

NextCodec ==
    \/ Encode
    \/ Decode

SpecCodec == InitCodec /\ [][NextCodec]_vars

-----------------------------------------------------------------------------
(* plot_at on one cell *)

\* the patterns plot_line hands to plot_at: a column mask in either nibble
PatternPool ==
    LET masks == {pattern_for(a, b) : a \in 0..MaxRowPos, b \in 0..MaxRowPos}
    IN  masks \cup {Shl(m, 4, 8) : m \in masks}

PlotAt ==
    /\ pc = "plot_at"
    /\ Len(merged) < MaxMerges
    /\ \E p \in PatternPool :
          /\ cell' = plot_at(p, cell)
          /\ merged' = Append(merged, p)
    /\ UNCHANGED <<pc, err, label, width, height, times, buf, seg, from, to, pt, calls, out,
                   arg, res>>

InitMerge ==
    /\ pc = "plot_at"
    /\ err = "none"
    /\ label = << >>
    /\ width = 0
    /\ height = 0
    /\ times = << >>
    /\ buf = << >>
    /\ seg = 0
    /\ from = <<0, 0>>
    /\ to = <<0, 0>>
    /\ pt = <<0, 0>>
    /\ calls = << >>
    /\ out = << >>
    /\ cell = SpaceChar
    /\ merged = << >>
    /\ arg = << >>
    /\ res = 0

NextMerge == PlotAt

SpecMerge == InitMerge /\ [][NextMerge]_vars

-----------------------------------------------------------------------------
(* pattern_for on its own *)

PatternFor ==
    /\ pc = "pattern_for"
    /\ res' = pattern_for(arg[1], arg[2])
    /\ pc' = "returned"
    /\ UNCHANGED <<err, label, width, height, times, buf, seg, from, to, pt, calls, out,
                   cell, merged, arg>>

InitPattern ==
    /\ pc = "pattern_for"
    /\ err = "none"
    /\ label = << >>
    /\ width = 0
    /\ height = 0
    /\ times = << >>
    /\ buf = << >>
    /\ seg = 0
    /\ from = <<0, 0>>
    /\ to = <<0, 0>>
    /\ pt = <<0, 0>>
    /\ calls = << >>
    /\ out = << >>
    /\ cell = SpaceChar
    /\ merged = << >>
    /\ arg \in (0..MaxRowPos) \X (0..MaxRowPos)
    /\ res = 0

NextPattern == PatternFor

SpecPattern == InitPattern /\ [][NextPattern]_vars

-----------------------------------------------------------------------------
(* y_at on its own *)

YAt ==
    /\ pc = "y_at"
    /\ res' = y_at(arg[1], arg[2], arg[3])
    /\ pc' = "returned"
    /\ UNCHANGED <<err, label, width, height, times, buf, seg, from, to, pt, calls, out,
                   cell, merged, arg>>

\* from, to with from.0 < to.0, and an x from from.0 to to.0
YAtInputs ==
    {a \in ((0..MaxX) \X (0..MaxRowPos)) \X ((0..MaxX) \X (0..MaxRowPos)) \X (0..MaxX) :
        a[1][1] < a[2][1] /\ a[1][1] <= a[3] /\ a[3] <= a[2][1]}

InitYAt ==
    /\ pc = "y_at"
    /\ err = "none"
    /\ label = << >>
    /\ width = 0
    /\ height = 0
    /\ times = << >>
    /\ buf = << >>
    /\ seg = 0
    /\ from = <<0, 0>>
    /\ to = <<0, 0>>
    /\ pt = <<0, 0>>
    /\ calls = << >>
    /\ out = << >>
    /\ cell = SpaceChar
    /\ merged = << >>
    /\ arg \in YAtInputs
    /\ res = 0

NextYAt == YAt

SpecYAt == InitYAt /\ [][NextYAt]_vars

-----------------------------------------------------------------------------
(* Vocabulary of the properties *)

Bit(n, k) == (n \div (2 ^ k)) % 2

\* whether sub-pixel <<x, y>> is lit in buffer b
Lit(b, x, y) ==
    Bit(pattern_from_char(b[Len(b) - (y \div 4)][(x \div 2) + 1]),
        (3 - (y % 4)) + 4 * (x % 2)) = 1

\* the rows (0 = the row of bit 3) a column mask lights
RowsOf(mask) == {r \in 0..3 : Bit(mask, 3 - r) = 1}

InChart(q) ==
    /\ 0 <= q[1] /\ q[1] <= width * 2 - 1
    /\ 0 <= q[2] /\ q[2] <= (height + 1) * 4 - 1

StripLeft(s) ==
    LET blanks == {k \in 0..Len(s) : \A j \in 1..k : s[j] = 32}
        n == CHOOSE k \in blanks : \A j \in blanks : j <= k
    IN  SubSeq(s, n + 1, Len(s))

\* the label field of printed line i (0-based), without its padding
Tag(i) == StripLeft(SubSeq(out[i + 1], 1, Len(out[i + 1]) - width - 1))

-----------------------------------------------------------------------------
(* Properties of plot_times *)

\* C1: in a chart with at least 2 samples, min < max, width >= 1 and height >= 1,
\* every coordinate handed to plot_line is inside 0..width*2-1 x 0..(height+1)*4-1
\* and no buffer index plot_line computes is out of bounds.
C1_InRange ==
    (Len(times) >= 2 /\ SeqMin(times) < SeqMax(times) /\ width >= 1 /\ height >= 1)
        => /\ err # "index_out_of_bounds"
           /\ pc = "plot_line" => InChart(from) /\ InChart(to)

\* C2: a chart (width >= 1, height >= 1) whose samples, at least 2, are all equal
\* does not divide by zero.
C2_NoDivideByZero ==
    (Len(times) >= 2 /\ SeqMin(times) = SeqMax(times) /\ width >= 1 /\ height >= 1)
        => err # "divide_by_zero"

\* C3: with fewer than 2 samples plot_times (width >= 1, height >= 1) neither
\* panics nor prints a chart.
C3_Rejected ==
    (Len(times) < 2 /\ width >= 1 /\ height >= 1) => pc # "panic" /\ out = << >>

C7_Original ==
    (pc = "done" /\ height >= 1 /\ Len(times) >= 2 /\ width >= 1) =>
        /\ Tag(1) = FormatHMS(SeqMax(times))
        /\ Tag(height \div 2) = label
        /\ Tag(height) = FormatHMS(SeqMin(times))
        /\ \A i \in 0..height : i \notin {1, height \div 2, height} => Tag(i) = << >>

\* C7 as amended: row 1 shows max; row height shows min unless height = 1 (row 1
\* keeps max); row height / 2 shows the label unless it is row 1 (height 2 or 3);
\* every other field is empty. For 18:00:00, 18:10:00, 17:50:00 at height 4 the
\* fields of rows 1, 2 and 4 read 18:10:00, the label and 17:50:00.
C7_Labels ==
    (pc = "done" /\ height >= 1) =>
        /\ Tag(1) = FormatHMS(SeqMax(times))
        /\ height # 1 => Tag(height) = FormatHMS(SeqMin(times))
        /\ height \notin {2, 3} => Tag(height \div 2) = label
        /\ \A i \in 0..height : i \notin {1, height \div 2, height} => Tag(i) = << >>
        /\ (height = 4 /\ times = <<64800000, 65400000, 64200000>>)
              => /\ Tag(1) = <<49, 56, 58, 49, 48, 58, 48, 48>>
                 /\ Tag(2) = label
                 /\ Tag(4) = <<49, 55, 58, 53, 48, 58, 48, 48>>
                 /\ Tag(0) = << >> /\ Tag(3) = << >>

C7_Witness ==
    /\ pc = "done" /\ height = 2
    /\ Tag(1) = FormatHMS(SeqMax(times))
    /\ Tag(1) # label
    /\ Tag(2) = FormatHMS(SeqMin(times))
    /\ Tag(1) # Tag(2)

-----------------------------------------------------------------------------
(* Properties of the codec and of plot_at *)

\* C4: decoding the character a pattern encodes to gives the pattern back, for
\* every pattern 0..255; pattern 0 and no other encodes to the space, every
\* other pattern to a Braille character.
C4_RoundTrip ==
    /\ pc = "decoded" => res = arg[1]
    /\ pc = "decode" => /\ (arg[1] = 0) <=> (res = 32)
                        /\ res = 32 \/ res \in 10241..10495

C4_Witness == pc = "decoded" /\ arg = <<136>> /\ res = 136

C5_IsOr ==
    LET p == pattern_from_char(cell)
    IN  \A k \in 0..7 : Bit(p, k) = 1 <=> \E j \in 1..Len(merged) : Bit(merged[j], k) = 1

C5_StaysLit ==
    LET p == pattern_from_char(cell)
        q == pattern_from_char(cell')
    IN  \A k \in 0..7 : Bit(p, k) = 1 => Bit(q, k) = 1

\* C5: after any sequence of merges into a cell that started as a space, the
\* cell's pattern is the bitwise OR of the patterns merged (a function of the set
\* of patterns, so the order does not matter), and no merge unlights a sub-pixel.
C5_Merge == []C5_IsOr /\ [][C5_StaysLit]_vars

C5_Witness ==
    /\ Len(merged) = 2
    /\ pattern_from_char(cell) # merged[1]
    /\ pattern_from_char(cell) # merged[2]

-----------------------------------------------------------------------------
(* Properties of pattern_for and plot_line *)

\* C8: for non-negative from and to, pattern_for returns the unbroken run of rows
\* between from's row and the target row (to's row when to is in from's group of
\* 4, else row 0 when to < from, else row 3), inside the low nibble: never one of
\* the gapped masks 0101, 1010, 1001.
C8_Filled ==
    pc = "returned" =>
        LET a == arg[1] % 4
            b == IF arg[2] \div 4 = arg[1] \div 4 THEN arg[2] % 4
                 ELSE IF arg[2] < arg[1] THEN 0 ELSE 3
            lo == IF a < b THEN a ELSE b
            hi == IF a < b THEN b ELSE a
        IN  /\ res \in 1..15
            /\ res \notin {5, 10, 9}
            /\ RowsOf(res) = lo..hi

C8_Witness == pc = "returned" /\ arg = <<0, 5>> /\ res = 15

\* the segment C9 is about: vertical, from sub-pixel row 0 to row 4*height - 1
C9_Segment ==
    /\ pc = "returned"
    /\ from[1] = to[1]
    /\ from[2] = 0
    /\ to[2] = 4 * height - 1

\* C9 as stated: the segment lights a sub-pixel in every character row of its
\* column of the buffer.
C9_Original ==
    C9_Segment => \A r \in 1..Len(buf) : buf[r][(from[1] \div 2) + 1] # 32

\* C9 as amended: the segment lights a sub-pixel, in its own sub-column, in each
\* of the character rows 1..height of its column; row 0, the top row of the
\* buffer's height + 1 rows, is left blank.
C9_Coverage ==
    C9_Segment =>
        /\ \A r \in 1..height :
              \E y \in 0..3 : Lit(buf, from[1], 4 * (height - r) + y)
        /\ buf[1][(from[1] \div 2) + 1] = 32

C9_Witness ==
    /\ C9_Segment /\ height = 2 /\ from[1] = 1
    /\ buf[2][1] # 32 /\ buf[3][1] # 32

\* C10: a request with from = to is rejected or draws the single point: it does
\* not return with that sub-pixel unlit.
C10_PointDrawn ==
    (pc = "returned" /\ from = to) => (err # "none" \/ Lit(buf, from[1], from[2]))

-----------------------------------------------------------------------------
(* Properties of y_at *)

Abs(n) == IF n < 0 THEN -n ELSE n

\* C11: for from.x < to.x, y_at is exactly from.y at from.x and to.y at to.x,
\* rising or falling; at any x from from.x to to.x it is from.y plus the quotient
\* (to.y - from.y)*(x - from.x)/(to.x - from.x) truncated toward zero (a falling
\* segment rounds up, toward from.y), and lies between from.y and to.y.
C11_Interpolation ==
    pc = "returned" =>
        LET f == arg[1]
            t == arg[2]
            x == arg[3]
            dx == t[1] - f[1]
            n == (t[2] - f[2]) * (x - f[1])
            q == res - f[2]
        IN  /\ x = f[1] => res = f[2]
            /\ x = t[1] => res = t[2]
            /\ Abs(q) * dx <= Abs(n) /\ Abs(n) < (Abs(q) + 1) * dx
            /\ q # 0 => (q > 0) = (n > 0)
            /\ (IF f[2] < t[2] THEN f[2] ELSE t[2]) <= res
            /\ res <= (IF f[2] < t[2] THEN t[2] ELSE f[2])
            /\ arg = <<<<0, 10>>, <<4, 0>>, 1>> => res = 8

C11_Witness == pc = "returned" /\ arg = <<<<0, 10>>, <<4, 0>>, 1>> /\ res = 8

-----------------------------------------------------------------------------
(* Termination *)

Halted == pc \in {"done", "panic", "returned"}

\* iterations the running loop of plot_line still has to make, at most
LineRank ==
    IF from[1] = to[1]
    THEN IF from[2] < to[2] THEN (IF pt[2] <= to[2] THEN to[2] - pt[2] + 1 ELSE 0)
         ELSE IF from[2] > to[2] THEN (IF pt[2] >= to[2] THEN pt[2] - to[2] + 1 ELSE 0)
         ELSE 0
    ELSE IF pt[1] < to[1] THEN to[1] - pt[1] ELSE 0

\* what is left of the rendering: <<phases, steps of the phase>>
Rank ==
    CASE pc = "plot_times" -> <<2 * Len(times) + 4, 0>>
      [] pc = "windows" -> <<2 * (Len(times) - seg) + 1, 0>>
      [] pc = "plot_line" -> <<2 * (Len(times) - seg), LineRank + 1>>
      [] pc = "print" -> <<1, Len(buf) - Len(out)>>
      [] OTHER -> <<0, 0>>

C12_Progress ==
    /\ Rank'[1] >= 0 /\ Rank'[2] >= 0
    /\ \/ Rank'[1] < Rank[1]
       \/ Rank'[1] = Rank[1] /\ Rank'[2] < Rank[2]

\* the guard of some step of the rendering holds
C12_CanStep ==
    \/ pc = "plot_times"
    \/ pc = "windows" /\ (seg + 2 <= Len(times) \/ seg + 2 > Len(times))
    \/ pc = "plot_line" /\ from[1] = to[1] /\ VerticalCond
    \/ pc = "plot_line" /\ from[1] # to[1] /\ pt[1] < to[1]
    \/ LineFinished
    \/ pc = "print" /\ Len(out) <= Len(buf)

C12_Segments ==
    /\ pc \in {"print", "done"} => seg = Len(times) - 1
    /\ pc \in {"windows", "plot_line"} /\ times # << >> => seg <= Len(times) - 1

\* C12: rendering terminates. Every step of plot_line and plot_times lowers a
\* rank bounded below: the vertical loop moves pt.1 strictly toward and past
\* to.1, the non-vertical loop raises pt.0 by one up to to.0, and the windows
\* loop runs samples.len() - 1 times; a rendering that has not ended (finished,
\* returned or panicked) always has a next step; plot_times reaches its print
\* loop only after exactly samples.len() - 1 segments.
C12_Terminates ==
    /\ [](Halted \/ C12_CanStep)
    /\ [][C12_Progress]_vars
    /\ []C12_Segments

C12_Witness ==
    /\ pc = "done" /\ Len(times) = 3 /\ seg = 2
    /\ Len(calls) >= 2
    /\ \E k \in 1..2 : times[k] # times[k + 1]

-----------------------------------------------------------------------------
(* Frame of a vertical segment *)

\* the pattern is not empty and lies in the nibble of sub-column x's side
InNibbleOf(x, pattern) ==
    IF x % 2 = 0 THEN pattern \in 1..15
    ELSE pattern \in 16..240 /\ pattern % 16 = 0

\* C13: a vertical segment (from.x = to.x, from.y # to.y), drawn upward or
\* downward into an empty buffer, issues exactly one merge for each character row
\* from from.y/4 to to.y/4 inclusive, all at column from.x/2, each pattern inside
\* the nibble of from.x's side (even: low, odd: high); afterwards those cells have
\* bits only in that nibble and every other cell of the buffer is still a space.
C13_VerticalFrame ==
    (pc = "returned" /\ from[1] = to[1] /\ from[2] # to[2]) =>
        LET g1 == from[2] \div 4
            g2 == to[2] \div 4
            lo == IF g1 < g2 THEN g1 ELSE g2
            hi == IF g1 < g2 THEN g2 ELSE g1
            col == from[1] \div 2
            rows == {height - g : g \in lo..hi}
        IN  /\ Len(calls) = hi - lo + 1
            /\ {calls[k][1] : k \in 1..Len(calls)} = rows
            /\ \A k \in 1..Len(calls) :
                  calls[k][2] = col /\ InNibbleOf(from[1], calls[k][3])
            /\ \A r \in 0..height : \A c \in 0..(width - 1) :
                  IF r \in rows /\ c = col
                  THEN InNibbleOf(from[1], pattern_from_char(buf[r + 1][c + 1]))
                  ELSE buf[r + 1][c + 1] = 32

C13_Witness ==
    /\ pc = "returned" /\ from = <<1, 9>> /\ to = <<1, 2>>
    /\ Len(calls) = 3
    /\ calls[1][3] >= 16

-----------------------------------------------------------------------------
(* Coverage of a non-vertical segment *)

\* the merges of a non-vertical segment: one per sub-column x in from.x..to.x-1,
\* at row height - y_at(x)/4 and column x/2
C14_Merges ==
    /\ Len(calls) = to[1] - from[1]
    /\ \A k \in 1..Len(calls) :
          LET x == from[1] + k - 1
          IN  /\ calls[k][1] = height - (y_at(from, to, x) \div 4)
              /\ calls[k][2] = x \div 2

\* every character row from the row of from.y to the row of y_at(to.x - 1) holds
\* a lit sub-pixel in a column of the segment
C14_RowsLit ==
    LET g1 == from[2] \div 4
        g2 == y_at(from, to, to[1] - 1) \div 4
        lo == IF g1 < g2 THEN g1 ELSE g2
        hi == IF g1 < g2 THEN g2 ELSE g1
    IN  \A g \in lo..hi :
            \E c \in (from[1] \div 2)..((to[1] - 1) \div 2) : buf[height - g + 1][c + 1] # 32

\* C14: a non-vertical segment (from.x < to.x) drawn into an empty buffer issues
\* exactly to.x - from.x merges, one per sub-column, and leaves no character row
\* between the row of from.y and the row of y_at(to.x - 1) unlit, also when it
\* rises or falls by more than one character row within one sub-column step.
C14_NoGap ==
    (pc = "returned" /\ from[1] < to[1]) => C14_Merges /\ C14_RowsLit

=============================================================================
